---- MODULE Spec2Model ----
(***************************************************************************)
(* State-machine model of src/app.py: the streaming conversion run         *)
(* (convert_and_validate_parsers), its per-record repair loop and the      *)
(* completion client (call_gemini_api).                                    *)
(*                                                                         *)
(* Text is a sequence of one-character tokens:                             *)
(*   "q"  a backquote               "p"  the word python                   *)
(*   "n"  a newline (whitespace)    "a"  a well-formed piece of code       *)
(*   "x"  a token ast.parse rejects with SyntaxError                       *)
(*   "z"  a construct on which ast.parse raises another exception          *)
(*        (ValueError, RecursionError, MemoryError)                        *)
(* A class name is a sequence of letters, upper case "A" "B" and lower     *)
(* case "a" "b".                                                           *)
(***************************************************************************)
EXTENDS Integers, Sequences, FiniteSets, TLC

VARIABLES
    GEMINI_API_KEY,   \* the credential, "" when absent (line 14)
    pc,               \* position of the generator
    files,            \* content of GENERATED_DIR: set of [path, js, body]
    i,                \* number of records the driver loop has started
    parser_data,      \* the record being converted
    attempt,          \* loop variable of the repair loop (line 121)
    python_code,      \* local python_code
    validation_error, \* local validation_error
    prompt,           \* local prompt
    tries,            \* loop variable i of call_gemini_api (line 78)
    httpLog,          \* requests issued by the current call of call_gemini_api
    slept,            \* time.sleep calls of the current call of call_gemini_api
    calls,            \* calls of call_gemini_api made for the current record
    sent,             \* prompts passed to call_gemini_api for the current record
    hist,             \* what each attempt of the current record came to
    outcome,          \* outcome of every record so far
    js_code,          \* local js_code: the source file read last
    extraction,       \* what extract_parser_data came to
    jsonExists,       \* whether OUTPUT_JSON exists
    lastEvent,        \* the message yielded last on the stream
    endMarkers,       \* number of end markers yielded on the stream
    outcomeEvents,    \* per record: warnings, FAILED messages and file writes
    wrote,            \* per record: the file it wrote
    zip,              \* OUTPUT_ZIP
    uploadResult      \* what the upload came to

vars == <<GEMINI_API_KEY, pc, files, i, parser_data, attempt, python_code,
          validation_error, prompt, tries, httpLog, slept, calls, sent, hist,
          outcome, js_code, extraction, jsonExists, lastEvent, endMarkers,
          outcomeEvents, wrote, zip, uploadResult>>

--------------------------------------------------------------------------
(* Bounds of the model *)

NumRecords == 2

--------------------------------------------------------------------------
(* Values *)

\* Python's None and a str, for a variable that holds either.
NoneVal == [isNone |-> TRUE, text |-> <<>>]

Str(s) == [isNone |-> FALSE, text |-> s]

\* Truth value of an object that is None or a str, as in: not python_code.
Truthy(v) == ~v.isNone /\ v.text # <<>>

\* validation_error: None or str(e) of the SyntaxError.
NoError == [isNone |-> TRUE, offset |-> 0, token |-> ""]

EmptyDict == [k \in {} |-> 0]

\* dict.get(key, default)
Get(d, k, default) == IF k \in DOMAIN d THEN d[k] ELSE default

IsSpace(c) == c = "n"

--------------------------------------------------------------------------
(* to_snake_case and the artifact's path (lines 25-29, 184-189) *)

IsUpper(c) == c \in {"A", "B"}

IsLower(c) == c \in {"a", "b"}

ToLower(c) == CASE c = "A" -> "a" [] c = "B" -> "b" [] OTHER -> c

\* Number of lower-case letters at the head of s: the greedy [a-z]+.
RECURSIVE LowerRun(_)
LowerRun(s) ==
    IF s # <<>> /\ IsLower(Head(s)) THEN 1 + LowerRun(Tail(s)) ELSE 0

\* re.sub('(.)([A-Z][a-z]+)', r'\1_\2', name)
RECURSIVE SubWordBreak(_)
SubWordBreak(s) ==
    IF Len(s) < 3 THEN s
    ELSE LET run == LowerRun(SubSeq(s, 3, Len(s)))
         IN  IF IsUpper(s[2]) /\ run >= 1
             THEN <<s[1], "_">> \o SubSeq(s, 2, 2 + run)
                      \o SubWordBreak(SubSeq(s, 3 + run, Len(s)))
             ELSE <<s[1]>> \o SubWordBreak(Tail(s))

\* re.sub('([a-z0-9])([A-Z])', r'\1_\2', name)
RECURSIVE SubCaseBreak(_)
SubCaseBreak(s) ==
    IF Len(s) < 2 THEN s
    ELSE IF IsLower(s[1]) /\ IsUpper(s[2])
         THEN <<s[1], "_", s[2]>> \o SubCaseBreak(SubSeq(s, 3, Len(s)))
         ELSE <<s[1]>> \o SubCaseBreak(Tail(s))

to_snake_case(name) ==
    LET broken == SubCaseBreak(SubWordBreak(name))
    IN  [k \in 1..Len(broken) |-> ToLower(broken[k])]

\* <<sub_dir_name, python_filename>> under GENERATED_DIR/en.
FilePath(class_name) ==
    LET first_char == ToLower(class_name[1])
    IN  <<IF IsLower(first_char) THEN first_char ELSE "_",
          to_snake_case(class_name)>>

--------------------------------------------------------------------------
(* Fence stripping (line 170) *)

IsFence(s) == Len(s) >= 3 /\ s[1] = "q" /\ s[2] = "q" /\ s[3] = "q"

IsPythonFence(s) == IsFence(s) /\ Len(s) >= 5 /\ s[4] = "p" /\ s[5] = "n"

\* re.sub of the two fences (three backquotes, python, newline; or three
\* backquotes alone) by '': leftmost matches, first alternative first.
RECURSIVE RemoveFences(_)
RemoveFences(s) ==
    IF s = <<>> THEN <<>>
    ELSE IF IsPythonFence(s) THEN RemoveFences(SubSeq(s, 6, Len(s)))
    ELSE IF IsFence(s) THEN RemoveFences(SubSeq(s, 4, Len(s)))
    ELSE <<Head(s)>> \o RemoveFences(Tail(s))

RECURSIVE LStrip(_)
LStrip(s) == IF s # <<>> /\ IsSpace(Head(s)) THEN LStrip(Tail(s)) ELSE s

RECURSIVE RStrip(_)
RStrip(s) ==
    IF s # <<>> /\ IsSpace(s[Len(s)]) THEN RStrip(SubSeq(s, 1, Len(s) - 1)) ELSE s

\* str.strip()
Strip(s) == RStrip(LStrip(s))

\* A cleaning that strips the whitespace before it removes the fences.
CleanCodeStripFirst(s) == RemoveFences(Strip(s))

CleanCode(s) == Strip(RemoveFences(s))

--------------------------------------------------------------------------
(* ast.parse (line 174) *)

\* Position of the first token of s that is in set, 0 when there is none.
RECURSIVE FirstOf(_, _)
FirstOf(s, set) ==
    IF s = <<>> THEN 0
    ELSE IF Head(s) \in set THEN 1
    ELSE LET r == FirstOf(Tail(s), set) IN IF r = 0 THEN 0 ELSE r + 1

\* "Valid", "SyntaxError" or "OtherError".
ParseVerdict(code) ==
    IF FirstOf(code, {"z"}) # 0 THEN "OtherError"
    ELSE IF FirstOf(code, {"x", "q"}) # 0 THEN "SyntaxError"
    ELSE "Valid"

\* str(e) of the SyntaxError: the offending token and where it is.
SyntaxDiagnostic(code) ==
    LET k == FirstOf(code, {"x", "q"})
    IN  [isNone |-> FALSE, offset |-> k, token |-> code[k]]

--------------------------------------------------------------------------
(* call_gemini_api (lines 66-89) *)

\* A retry loop that goes round once more.
HttpTriesOneMore == 3 + 1

\* range(3) of the retry loop (line 78)
MaxHttpTries == 3

\* What a request can come to: a RequestException (connection error, timeout,
\* the HTTPError of raise_for_status), or a 2xx response with a JSON body of
\* one of these shapes.
ResponseKinds ==
    {"transport", "text", "no_candidates", "empty_candidates", "no_content",
     "no_parts", "empty_parts", "no_text"}

\* The texts a response can carry.
Texts ==
    { <<"a">>,                                         \* valid code
      <<"a", "n", "a">>,                               \* other valid code
      <<"q", "q", "q", "p", "n", "a", "n", "q", "q", "q">>, \* valid, fenced
      <<"x">>,                                         \* a syntax error
      <<"a", "x">>,                                    \* another one
      <<"q", "q", "q", "n", "q", "q", "q">>,           \* an empty code block
      <<"z">> }                                        \* ast.parse blows up

\* response.json() of a 2xx response of the given shape.
JsonBody(kind, t) ==
    CASE kind = "text" ->
           [candidates |-> <<[content |-> [parts |-> <<[text |-> t]>>]]>>]
      [] kind = "no_candidates" -> [promptFeedback |-> "SAFETY"]
      [] kind = "empty_candidates" -> [candidates |-> <<>>]
      [] kind = "no_content" -> [candidates |-> <<[finishReason |-> "SAFETY"]>>]
      [] kind = "no_parts" -> [candidates |-> <<[content |-> [role |-> "model"]]>>]
      [] kind = "empty_parts" -> [candidates |-> <<[content |-> [parts |-> <<>>]]>>]
      [] kind = "no_text" ->
           [candidates |-> <<[content |-> [parts |-> <<[thought |-> TRUE]>>]]>>]

\* Lines 83-85.  raised: the [0] of an empty list raised IndexError.
ExtractText(result) ==
    LET candidates == Get(result, "candidates", <<EmptyDict>>)
    IN  IF Len(candidates) = 0 THEN [raised |-> TRUE, value |-> <<>>]
        ELSE LET parts == Get(Get(candidates[1], "content", EmptyDict),
                              "parts", <<EmptyDict>>)
             IN  IF Len(parts) = 0 THEN [raised |-> TRUE, value |-> <<>>]
                 ELSE [raised |-> FALSE, value |-> Get(parts[1], "text", <<>>)]

\* A linear backoff.
LinearBackoff(k) == k + 1

\* 2 ** i
RECURSIVE Pow2(_)
Pow2(k) == IF k = 0 THEN 1 ELSE 2 * Pow2(k - 1)

\* Lines 79-88: requests.post and what follows it.
SendRequest ==
    /\ \E kind \in ResponseKinds :
         \E t \in (IF kind = "text" THEN Texts ELSE {<<>>}) :
           /\ httpLog' = Append(httpLog,
                                [key |-> GEMINI_API_KEY, kind |-> kind, text |-> t])
           /\ IF kind = "transport"
              THEN /\ slept' = Append(slept, Pow2(tries))
                   /\ tries' = tries + 1
                   /\ IF tries + 1 < MaxHttpTries
                      THEN UNCHANGED <<pc, python_code>>
                      ELSE /\ python_code' = NoneVal
                           /\ pc' = "response"
              ELSE LET got == ExtractText(JsonBody(kind, t))
                   IN  /\ UNCHANGED <<slept, tries>>
                       /\ IF got.raised
                          THEN /\ pc' = "critical"
                               /\ UNCHANGED python_code
                          ELSE /\ python_code' = Str(got.value)
                               /\ pc' = "response"
    /\ UNCHANGED <<GEMINI_API_KEY, files, i, parser_data, attempt,
                   validation_error, prompt, calls, sent, hist, outcome,
                   js_code, extraction, jsonExists, lastEvent, endMarkers,
                   outcomeEvents, wrote, zip, uploadResult>>

\* A call that looks at the credential first and returns None without a
\* request when it is absent.
HttpPostChecksKey ==
    /\ pc = "http"
    /\ IF GEMINI_API_KEY = ""
       THEN /\ python_code' = NoneVal
            /\ pc' = "response"
            /\ UNCHANGED <<GEMINI_API_KEY, files, i, parser_data, attempt,
                           validation_error, prompt, tries, httpLog, slept, calls,
                           sent, hist, outcome, js_code, extraction, jsonExists,
                           lastEvent, endMarkers, outcomeEvents, wrote, zip,
                           uploadResult>>
       ELSE SendRequest

\* One pass of the retry loop of call_gemini_api (lines 78-89).  Nothing looks
\* at GEMINI_API_KEY: it only goes into the URL.
HttpPost ==
    /\ pc = "http"
    /\ SendRequest

--------------------------------------------------------------------------
(* convert_and_validate_parsers (lines 92-219) *)

\* A repair loop that goes round once more.
AttemptsOneMore == 3 + 1

\* range(3) of the repair loop (line 121)
MaxAttempts == 3

\* class_name of the records of parsers_data.json
ClassNames == { <<"A", "b">>, <<"a", "b">>, <<"B", "a">> }

Outcomes == {"none", "Success", "Skipped", "Failed"}

\* A file left in GENERATED_DIR by an earlier run.
StaleFile == [path |-> <<"a", <<"a", "b">>>>, js |-> 0, body |-> <<"a">>]

NoPrompt ==
    [kind |-> "none", class_name |-> <<>>, js_code |-> 0,
     error |-> NoError, code |-> NoneVal]

\* The prompt of attempt 0 (lines 123-146).
InitialPrompt(record, source) ==
    [kind |-> "Initial", class_name |-> record.class_name, js_code |-> source,
     error |-> NoError, code |-> NoneVal]

\* A self-correction prompt that leaves the previous code out.
CorrectivePromptWithoutCode(error, code) ==
    [kind |-> "Corrective", class_name |-> <<>>, js_code |-> 0,
     error |-> error, code |-> NoneVal]

\* The self-correction prompt (lines 148-160).
CorrectivePrompt(error, code) ==
    [kind |-> "Corrective", class_name |-> <<>>, js_code |-> 0,
     error |-> error, code |-> code]

\* A driver that leaves validation_error as the record before left it.
KeepsErrorAtRecordStart(previous) == previous

\* validation_error = None at the head of a record (line 120)
ErrorAtRecordStart(previous) == NoError

\* A driver that goes on with a record whose source was not found.
NeverSkipsRecord(found) == FALSE

\* except FileNotFoundError: ... continue (lines 115-117)
SkipsRecord(found) == ~found

\* A loop that goes on to another attempt when there was no response.
AfterNoResponseRetry(a) ==
    [pc |-> IF a + 1 < 3 THEN "prompt" ELSE "save", attempt |-> a + 1]

\* The break of line 167: the loop is left, attempt stays.
AfterNoResponse(a) == [pc |-> "save", attempt |-> a]

\* A loop that goes on after a SyntaxError without counting the attempt.
AfterSyntaxErrorUncounted(a) == [pc |-> "prompt", attempt |-> a]

\* The end of the loop body after a SyntaxError: the for of line 121 goes on
\* while the range lasts.
AfterSyntaxError(a) ==
    [pc |-> IF a + 1 < MaxAttempts THEN "prompt" ELSE "save", attempt |-> a + 1]

\* A loop that keeps the first diagnostic it got.
KeepsFirstError(previous, code) ==
    IF previous.isNone THEN SyntaxDiagnostic(code) ELSE previous

\* validation_error = str(e) (line 179)
ErrorOnSyntaxError(previous, code) == SyntaxDiagnostic(code)

\* if validation_error is None and python_code (line 182)
SavesCode(error, code) == error.isNone /\ Truthy(code)

\* A run that starts on the directory as the run before left it.
KeepsDir(old) == old

\* shutil.rmtree(GENERATED_DIR); os.makedirs(GENERATED_DIR) (lines 101-104)
DirAfterRmtree(old) == {}

\* Lines 92-106: without OUTPUT_JSON the generator returns after its message;
\* otherwise the records are loaded (json.load may raise) and the generated
\* directory is removed and made anew.
StartConversion ==
    /\ pc = "convert"
    /\ IF ~jsonExists
       THEN /\ lastEvent' = "ERROR: parsers_data.json not found"
            /\ pc' = "closed"
            /\ UNCHANGED files
       ELSE \E loaded \in BOOLEAN :
              IF loaded
              THEN /\ files' = DirAfterRmtree(files)
                   /\ pc' = "loop"
                   /\ UNCHANGED lastEvent
              ELSE /\ pc' = "critical"
                   /\ UNCHANGED <<files, lastEvent>>
    /\ UNCHANGED <<GEMINI_API_KEY, i, parser_data, attempt, python_code,
                   validation_error, prompt, tries, httpLog, slept, calls, sent,
                   hist, outcome, js_code, extraction, jsonExists, endMarkers,
                   outcomeEvents, wrote, zip, uploadResult>>

\* Lines 107-120: the next record; its source file is read, or is not found.
NextRecord ==
    /\ pc = "loop"
    /\ i < NumRecords
    /\ \E cn \in ClassNames, found \in BOOLEAN :
         /\ i' = i + 1
         /\ parser_data' = [js_filename |-> i + 1, class_name |-> cn]
         /\ calls' = 0
         /\ sent' = <<>>
         /\ hist' = <<>>
         /\ httpLog' = <<>>
         /\ slept' = <<>>
         /\ js_code' = IF found THEN i + 1 ELSE js_code
         /\ IF SkipsRecord(found)
            THEN /\ outcome' = [outcome EXCEPT ![i + 1] = "Skipped"]
                 /\ outcomeEvents' =
                        [outcomeEvents EXCEPT ![i + 1] = outcomeEvents[i + 1] + 1]
                 /\ lastEvent' = "WARNING: JS file not found, skipping"
                 /\ pc' = "loop"
                 /\ UNCHANGED <<python_code, validation_error, attempt>>
            ELSE /\ python_code' = NoneVal
                 /\ validation_error' = ErrorAtRecordStart(validation_error)
                 /\ attempt' = 0
                 /\ lastEvent' = "Converting"
                 /\ pc' = "prompt"
                 /\ UNCHANGED <<outcome, outcomeEvents>>
    /\ UNCHANGED <<GEMINI_API_KEY, files, prompt, tries, extraction, jsonExists,
                   endMarkers, wrote, zip, uploadResult>>

\* Lines 121-163: the prompt is built and call_gemini_api is entered.
BuildPrompt ==
    /\ pc = "prompt"
    /\ prompt' = IF attempt = 0
                 THEN InitialPrompt(parser_data, js_code)
                 ELSE CorrectivePrompt(validation_error, python_code)
    /\ sent' = Append(sent, prompt')
    /\ calls' = calls + 1
    /\ tries' = 0
    /\ httpLog' = <<>>
    /\ slept' = <<>>
    /\ lastEvent' = IF attempt = 0 THEN lastEvent ELSE "Self-correction attempt"
    /\ pc' = "http"
    /\ UNCHANGED <<GEMINI_API_KEY, files, i, parser_data, attempt, python_code,
                   validation_error, hist, outcome, js_code, extraction,
                   jsonExists, endMarkers, outcomeEvents, wrote, zip,
                   uploadResult>>

\* Lines 165-180: what call_gemini_api returned is cleaned and parsed.
HandleResponse ==
    /\ pc = "response"
    /\ IF ~Truthy(python_code)
       THEN /\ hist' = Append(hist, [raw |-> python_code, code |-> NoneVal,
                                     verdict |-> "NoResponse", error |-> NoError])
            /\ pc' = AfterNoResponse(attempt).pc
            /\ attempt' = AfterNoResponse(attempt).attempt
            /\ lastEvent' = "ERROR: No response from Gemini API"
            /\ UNCHANGED <<python_code, validation_error>>
       ELSE LET code == CleanCode(python_code.text)
                verdict == ParseVerdict(code)
            IN  /\ python_code' = Str(code)
                /\ CASE verdict = "Valid" ->
                          /\ validation_error' = NoError
                          /\ lastEvent' = "Code is syntactically valid"
                          /\ pc' = "save"
                          /\ UNCHANGED attempt
                     [] verdict = "SyntaxError" ->
                          /\ validation_error' =
                                 ErrorOnSyntaxError(validation_error, code)
                          /\ lastEvent' = "ERROR: Invalid Python syntax generated"
                          /\ pc' = AfterSyntaxError(attempt).pc
                          /\ attempt' = AfterSyntaxError(attempt).attempt
                     [] verdict = "OtherError" ->
                          /\ pc' = "critical"
                          /\ UNCHANGED <<validation_error, attempt, lastEvent>>
                /\ hist' = Append(hist, [raw |-> python_code, code |-> Str(code),
                                         verdict |-> verdict,
                                         error |-> IF verdict = "SyntaxError"
                                                   THEN SyntaxDiagnostic(code)
                                                   ELSE NoError])
    /\ UNCHANGED <<GEMINI_API_KEY, files, i, parser_data, prompt, tries, httpLog,
                   slept, calls, sent, outcome, js_code, extraction, jsonExists,
                   endMarkers, outcomeEvents, wrote, zip, uploadResult>>

\* Lines 182-194: the code is written to its file, or the record has failed.
SaveOrFail ==
    /\ pc = "save"
    /\ IF SavesCode(validation_error, python_code)
       THEN LET file_path == FilePath(parser_data.class_name)
            IN  /\ files' = {f \in files : f.path # file_path} \cup
                              {[path |-> file_path, js |-> parser_data.js_filename,
                                body |-> python_code.text]}
                /\ wrote' = [wrote EXCEPT ![i] =
                                [written |-> TRUE, path |-> file_path,
                                 body |-> python_code.text]]
                /\ outcome' = [outcome EXCEPT ![i] = "Success"]
                /\ UNCHANGED lastEvent
       ELSE /\ outcome' = [outcome EXCEPT ![i] = "Failed"]
            /\ lastEvent' = "FAILED to generate valid code"
            /\ UNCHANGED <<files, wrote>>
    /\ outcomeEvents' = [outcomeEvents EXCEPT ![i] = outcomeEvents[i] + 1]
    /\ pc' = "loop"
    /\ UNCHANGED <<GEMINI_API_KEY, i, parser_data, attempt, python_code,
                   validation_error, prompt, tries, httpLog, slept, calls, sent,
                   hist, js_code, extraction, jsonExists, endMarkers, zip,
                   uploadResult>>

\* Lines 196-206: every record is done; the generated files are zipped.
CreateZip ==
    /\ pc = "loop"
    /\ i = NumRecords
    /\ zip' = [made |-> TRUE, members |-> files]
    /\ lastEvent' = "ZIP file created"
    /\ pc' = "upload"
    /\ UNCHANGED <<GEMINI_API_KEY, files, i, parser_data, attempt, python_code,
                   validation_error, prompt, tries, httpLog, slept, calls, sent,
                   hist, outcome, js_code, extraction, jsonExists, endMarkers,
                   outcomeEvents, wrote, uploadResult>>

\* What the upload can come to: a link, or an exception of open, of
\* requests.post, of raise_for_status or of response.json.
UploadResults == {"link", "connection_error", "timeout", "http_error", "bad_json"}

\* An upload whose exceptions nothing catches.
AfterUploadUncaught(result) == IF result = "link" THEN "end" ELSE "critical"

\* try ... except Exception (lines 210-217): either way line 219 is next.
AfterUpload(result) == "end"

\* Lines 208-217: the ZIP is posted to the file host.
Upload ==
    /\ pc = "upload"
    /\ \E result \in UploadResults :
         /\ uploadResult' = result
         /\ lastEvent' = IF result = "link"
                         THEN "DONE! Download your parsers here"
                         ELSE "ERROR: Could not upload the file"
         /\ pc' = AfterUpload(result)
    /\ UNCHANGED <<GEMINI_API_KEY, files, i, parser_data, attempt, python_code,
                   validation_error, prompt, tries, httpLog, slept, calls, sent,
                   hist, outcome, js_code, extraction, jsonExists, endMarkers,
                   outcomeEvents, wrote, zip>>

\* Line 219: the end marker.
EmitEnd ==
    /\ pc = "end"
    /\ lastEvent' = "---END---"
    /\ endMarkers' = endMarkers + 1
    /\ pc' = "finished"
    /\ UNCHANGED <<GEMINI_API_KEY, files, i, parser_data, attempt, python_code,
                   validation_error, prompt, tries, httpLog, slept, calls, sent,
                   hist, outcome, js_code, extraction, jsonExists,
                   outcomeEvents, wrote, zip, uploadResult>>

\* Lines 236-238 of start_conversion: an exception that left a generator; the
\* critical error message, then the end marker.
CriticalError ==
    /\ pc = "critical"
    /\ lastEvent' = "---END---"
    /\ endMarkers' = endMarkers + 1
    /\ pc' = "aborted"
    /\ UNCHANGED <<GEMINI_API_KEY, files, i, parser_data, attempt, python_code,
                   validation_error, prompt, tries, httpLog, slept, calls, sent,
                   hist, outcome, js_code, extraction, jsonExists,
                   outcomeEvents, wrote, zip, uploadResult>>

--------------------------------------------------------------------------
(* extract_parser_data (lines 47-63) *)

\* What the extraction can come to: JS_PARSERS_DIR is missing (line 51
\* raises), the Node.js script fails (lines 57-59), OUTPUT_JSON cannot be
\* loaded after it (lines 61-62 raise), or the data is found.
ExtractionResults == {"no_dir", "node_fails", "bad_json", "found"}

\* Lines 234-235 of start_conversion: convert_and_validate_parsers is entered
\* when extract_parser_data is exhausted, whether by its last line or by the
\* return of line 59.
ExtractParserData ==
    /\ pc = "extract"
    /\ \E result \in ExtractionResults :
         CASE result = "no_dir" ->
                /\ lastEvent' = "Starting parser data extraction"
                /\ pc' = "critical"
                /\ UNCHANGED <<extraction, jsonExists>>
           [] result = "node_fails" ->
                /\ lastEvent' = "ERROR: Failed to run Node.js script"
                /\ extraction' = "failed"
                /\ pc' = "convert"
                /\ UNCHANGED jsonExists
           [] result = "bad_json" ->
                /\ lastEvent' = "Success! Extracted data"
                /\ jsonExists' = TRUE
                /\ pc' = "critical"
                /\ UNCHANGED extraction
           [] result = "found" ->
                /\ lastEvent' = "Found data for parsers"
                /\ jsonExists' = TRUE
                /\ extraction' = "ok"
                /\ pc' = "convert"
    /\ UNCHANGED <<GEMINI_API_KEY, files, i, parser_data, attempt, python_code,
                   validation_error, prompt, tries, httpLog, slept, calls, sent,
                   hist, outcome, js_code, endMarkers, outcomeEvents, wrote, zip,
                   uploadResult>>

\* A record that has written no file.
NoWrite == [written |-> FALSE, path |-> <<"", <<>>>>, body |-> <<>>]

--------------------------------------------------------------------------
(* The specification *)

Init ==
    /\ GEMINI_API_KEY \in {"", "k"}
    /\ pc = "extract"
    /\ files \in {{}, {StaleFile}}
    /\ i = 0
    /\ parser_data = [js_filename |-> 0, class_name |-> <<>>]
    /\ attempt = 0
    /\ python_code = NoneVal
    /\ validation_error = NoError
    /\ prompt = NoPrompt
    /\ tries = 0
    /\ httpLog = <<>>
    /\ slept = <<>>
    /\ calls = 0
    /\ sent = <<>>
    /\ hist = <<>>
    /\ outcome = [r \in 1..NumRecords |-> "none"]
    /\ js_code = 0
    /\ extraction = "pending"
    /\ jsonExists \in BOOLEAN
    /\ lastEvent = ""
    /\ endMarkers = 0
    /\ outcomeEvents = [r \in 1..NumRecords |-> 0]
    /\ wrote = [r \in 1..NumRecords |-> NoWrite]
    /\ zip = [made |-> FALSE, members |-> {}]
    /\ uploadResult = "none"

Next ==
    \/ ExtractParserData
    \/ StartConversion
    \/ NextRecord
    \/ BuildPrompt
    \/ HttpPost
    \/ HandleResponse
    \/ SaveOrFail
    \/ CreateZip
    \/ Upload
    \/ EmitEnd
    \/ CriticalError

Spec == Init /\ [][Next]_vars

TypeOK ==
    /\ GEMINI_API_KEY \in {"", "k"}
    /\ pc \in {"extract", "convert", "closed", "loop", "prompt", "http",
               "response", "save", "upload", "end", "finished", "critical",
               "aborted"}
    /\ extraction \in {"pending", "ok", "failed"}
    /\ endMarkers \in 0..1
    /\ i \in 0..NumRecords
    /\ attempt \in 0..MaxAttempts
    /\ tries \in 0..MaxHttpTries
    /\ outcome \in [1..NumRecords -> Outcomes]

--------------------------------------------------------------------------
(* Properties *)

\* The repair loop of the current record is over and its outcome is set.
\* The positions after a record's SaveOrFail or skip.
AfterRecord == {"loop", "upload", "end", "finished"}

RecordDone == i >= 1 /\ pc \in AfterRecord

\* The artifact of the current record holds this code.
ArtifactHolds(code) ==
    \E f \in files : /\ f.path = FilePath(parser_data.class_name)
                     /\ f.js = parser_data.js_filename
                     /\ f.body = code

AllTransport(log) == \A k \in 1..Len(log) : log[k].kind = "transport"

\* C1: for a record whose source was read, call_gemini_api is called at most
\* 3 times, whatever the responses and verdicts are and however the
\* diagnostics differ from one attempt to the next.
C1_AtMostThreeCalls ==
    /\ calls <= 3
    /\ Len(sent) = calls
    /\ Len(hist) <= calls

\* C1 witness: three calls were made for a record, and the diagnostics of its
\* attempts differ.
C1_Witness ==
    /\ RecordDone
    /\ calls = 3
    /\ Len(hist) = 3
    /\ hist[1].verdict = "SyntaxError"
    /\ hist[2].verdict = "SyntaxError"
    /\ hist[1].error # hist[2].error

\* C2 (as claimed): when attempts 1..k-1 return text that fails validation and
\* attempt k returns text that validates, exactly k calls are made, none
\* follows the valid one, and the outcome is Success with attempt k's cleaned
\* code.
C2_StopsAtFirstValid ==
    \A k \in 1..3 :
      ( /\ Len(hist) >= k
        /\ hist[k].verdict = "Valid"
        /\ \A j \in 1..(k - 1) : hist[j].verdict = "SyntaxError" )
      => /\ calls = k
         /\ Len(hist) = k
         /\ pc \in {"save"} \cup AfterRecord
         /\ RecordDone => /\ outcome[i] = "Success"
                          /\ ArtifactHolds(hist[k].code.text)

\* C3: when all 3 attempts of a record return text that fails validation, the
\* outcome is Failed and validation_error at loop exit is the diagnostic of
\* the 3rd attempt's cleaned code.
C3_FailedKeepsLastDiagnostic ==
    ( /\ Len(hist) = 3
      /\ \A j \in 1..3 : hist[j].verdict = "SyntaxError" )
    => /\ pc \in {"save"} \cup AfterRecord
       /\ validation_error = SyntaxDiagnostic(hist[3].code.text)
       /\ RecordDone => /\ outcome[i] = "Failed"
                        /\ \A f \in files : f.js # i

\* C3 witness: a record has failed after 3 invalid attempts, the 3rd with a
\* diagnostic that neither of the earlier attempts had.
C3_Witness ==
    /\ RecordDone
    /\ outcome[i] = "Failed"
    /\ Len(hist) = 3
    /\ \A j \in 1..3 : hist[j].verdict = "SyntaxError"
    /\ hist[3].error # hist[1].error
    /\ hist[3].error # hist[2].error

\* C4 (as claimed): when the client returns no text the loop goes on to
\* another attempt; so a record for which the client returned no text on
\* every call has had exactly 3 calls when it ends Failed.
C4_RetriesAfterNoResponse ==
    ( /\ RecordDone
      /\ Len(hist) >= 1
      /\ \A j \in 1..Len(hist) : hist[j].verdict = "NoResponse" )
    => calls = 3

\* C4 (amended): an attempt on which the client returns no text (None or '')
\* is the record's last: no prompt is built and no call made after it,
\* validation_error stays what the attempt before left, and the record ends
\* Failed with no artifact.
C4_NoResponseEndsLoop ==
    \A k \in 1..Len(hist) :
      ~Truthy(hist[k].raw)
      => /\ hist[k].verdict = "NoResponse"
         /\ k = Len(hist)
         /\ calls = k
         /\ Len(sent) = k
         /\ validation_error = (IF k = 1 THEN NoError ELSE hist[k - 1].error)
         /\ pc \in {"save"} \cup AfterRecord
         /\ RecordDone => /\ outcome[i] = "Failed"
                          /\ \A f \in files : f.js # i

\* C4 witness: the client returned None on the 2nd attempt of a record, after
\* a 1st attempt that failed validation, and the record has ended.
C4_Witness ==
    /\ RecordDone
    /\ Len(hist) = 2
    /\ hist[1].verdict = "SyntaxError"
    /\ hist[2].raw.isNone
    /\ calls = 2
    /\ outcome[i] = "Failed"

\* C5: the prompt of attempt 1 is the Initial prompt and carries no prior
\* error; the prompt of every attempt n > 1 is a Corrective prompt that embeds
\* the diagnostic of attempt n-1 and the cleaned code of attempt n-1.
C5_CorrectiveEmbedsPrevious ==
    \A n \in 1..Len(sent) :
      IF n = 1
      THEN /\ sent[n].kind = "Initial"
           /\ sent[n].error.isNone
           /\ sent[n].code.isNone
           /\ sent[n].class_name = parser_data.class_name
      ELSE /\ Len(hist) >= n - 1
           /\ sent[n].kind = "Corrective"
           /\ hist[n - 1].verdict = "SyntaxError"
           /\ ~sent[n].error.isNone
           /\ sent[n].error = hist[n - 1].error
           /\ ~sent[n].code.isNone
           /\ sent[n].code = hist[n - 1].code

\* C5 witness: a 3rd prompt was sent whose diagnostic and code differ from
\* those of the 2nd prompt.
C5_Witness ==
    /\ Len(sent) = 3
    /\ sent[3].error # sent[2].error
    /\ sent[3].code # sent[2].code

\* C6: a record whose source file is not found is Skipped: no call of
\* call_gemini_api and no request is made for it, no artifact is written for
\* it, and the driver is back at the head of its loop for the next record.
C6_MissingSourceSkipped ==
    /\ (i >= 1 /\ js_code # i)
       => /\ outcome[i] = "Skipped"
          /\ calls = 0
          /\ sent = <<>>
          /\ httpLog = <<>>
          /\ pc \in AfterRecord
          /\ pc # "loop" => i = NumRecords
    /\ \A r \in 1..i : outcome[r] = "Skipped" => \A f \in files : f.js # r

\* C6 witness: the 1st record was skipped and the 2nd record, taken up after
\* it, has succeeded.
C6_Witness ==
    /\ i = 2
    /\ outcome[1] = "Skipped"
    /\ outcome[2] = "Success"

\* C7 (as claimed): whatever the completion client and the validator do, a
\* run that has taken up its records ends with every record of the sequence
\* having an outcome.
C7_EveryRecordProcessed ==
    (i >= 1 /\ pc \in {"finished", "aborted"})
    => \A r \in 1..NumRecords : outcome[r] # "none"

\* C8 (as claimed): once the validator has accepted an attempt's cleaned code,
\* the record ends Success with that code as its artifact, also when the code
\* is the empty string.
C8_ValidatedMeansSuccess ==
    \A k \in 1..Len(hist) :
      (hist[k].verdict = "Valid" /\ RecordDone)
      => /\ outcome[i] = "Success"
         /\ ArtifactHolds(hist[k].code.text)

\* C9: one call of call_gemini_api issues at most 3 requests; a request that
\* succeeds is the call's last and its text is what the call returns; the
\* call returns None exactly when 3 requests failed with a RequestException.
C9_AtMostThreeRequests ==
    /\ Len(httpLog) <= 3
    /\ Len(slept) <= 3
    /\ \A k \in 1..(Len(httpLog) - 1) : httpLog[k].kind = "transport"
    /\ pc = "http" => Len(httpLog) < 3 /\ AllTransport(httpLog)
    /\ pc = "response"
       => /\ Len(httpLog) >= 1
          /\ python_code.isNone <=> (Len(httpLog) = 3 /\ AllTransport(httpLog))
          /\ httpLog[Len(httpLog)].kind = "text"
             => python_code = Str(httpLog[Len(httpLog)].text)

\* C9 witness: a call has returned the text of its 3rd request, after two
\* requests that failed.
C9_Witness ==
    /\ pc = "response"
    /\ Len(httpLog) = 3
    /\ httpLog[3].kind = "text"
    /\ python_code = Str(httpLog[3].text)

NoContentKinds ==
    {"no_candidates", "empty_candidates", "no_content", "no_parts",
     "empty_parts", "no_text"}

\* C11 (as claimed): on a 2xx JSON response that lacks usable content
\* (candidates missing or empty, content missing, parts missing or empty,
\* text missing) call_gemini_api returns a failure value: it does not raise
\* and it issues no further request.
C11_NoContentReturnsFailure ==
    \A k \in 1..Len(httpLog) :
      httpLog[k].kind \in NoContentKinds
      => /\ k = Len(httpLog)
         /\ pc \notin {"http", "critical", "aborted"}
         /\ pc = "response" => ~Truthy(python_code)

\* C12 (as claimed): the delays of one call are 1, 2, 4 in this order and each
\* sleep is followed by another request, so a call that is over has slept
\* fewer times than it has posted.
C12_SleepsOnlyBetweenRequests ==
    /\ \A k \in 1..Len(slept) : slept[k] = <<1, 2, 4>>[k]
    /\ (pc # "http" /\ Len(httpLog) >= 1) => Len(slept) < Len(httpLog)

\* C12 (amended): the delays of one call are 1, 2, 4 in this order, one after
\* every request that failed with a RequestException, the last one included:
\* a call that returns None has slept 1, 2 and 4 seconds, the 4 seconds after
\* its final request; no sleep follows a request that succeeded.
C12_SleepsAfterEveryFailure ==
    /\ Len(slept) <= 3
    /\ \A k \in 1..Len(slept) : slept[k] = <<1, 2, 4>>[k]
    /\ Len(slept) = Cardinality({k \in 1..Len(httpLog) :
                                    httpLog[k].kind = "transport"})
    /\ (pc = "response" /\ python_code.isNone)
       => /\ slept = <<1, 2, 4>>
          /\ Len(httpLog) = 3

\* C12 witness: a call has returned None after 3 failed requests and 3 sleeps.
C12_Witness ==
    /\ pc = "response"
    /\ python_code.isNone
    /\ Len(httpLog) = 3
    /\ slept = <<1, 2, 4>>

\* C13 (as claimed): no failure of ast.parse leaves the validation step: a
\* failure of any exception class becomes a diagnostic in validation_error
\* and the repair loop and the batch keep running.
C13_ParseFailureBecomesInvalid ==
    \A k \in 1..Len(hist) :
      hist[k].verdict \in {"SyntaxError", "OtherError"}
      => /\ pc \notin {"critical", "aborted"}
         /\ k = Len(hist) => ~validation_error.isNone


\* C15 (as claimed): the records are taken in input order, the outcome of a
\* record is out before anything of the next record, no record has two
\* outcomes, and when the run is over every record the driver took up has
\* exactly one of Success (its file written), Skipped and Failed (no file).
C15_OneOutcomePerRecord ==
    /\ i >= 1 => parser_data.js_filename = i
    /\ \A r \in 1..NumRecords :
         /\ outcomeEvents[r] <= 1
         /\ r < i => outcome[r] # "none"
         /\ r > i => outcome[r] = "none"
    /\ pc \in {"finished", "aborted"}
       => \A r \in 1..i :
            /\ outcomeEvents[r] = 1
            /\ outcome[r] \in {"Success", "Skipped", "Failed"}
            /\ wrote[r].written <=> outcome[r] = "Success"

\* The repair loop of the current record is running.
InLoop == pc \in {"prompt", "http", "response"}

\* How far the repair loop has come: the attempt, then the step within it.
LoopRank ==
    attempt * 8 + (CASE pc = "prompt" -> 0
                     [] pc = "http" -> 1 + tries
                     [] pc = "response" -> 5
                     [] OTHER -> 0)

\* The verdict of the attempt made last.
LastVerdict == IF hist = <<>> THEN "none" ELSE hist[Len(hist)].verdict

\* C16: the repair loop of a record terminates. While it runs, every step
\* (each call of the completion client returning) takes it further along a
\* bounded rank of at most 3 iterations; when it is left for the save step it
\* is in Succeeded (the last attempt validated) or has given up (the 3rd
\* attempt failed validation, or the client returned no text); and once it is
\* left, no prompt is built and no call made for that record any more.
C16_RepairLoopTerminates ==
    /\ [](InLoop => /\ attempt < 3
                    /\ Len(hist) = attempt
                    /\ LoopRank <= 21)
    /\ [][(InLoop /\ InLoop') => (i' = i /\ LoopRank' > LoopRank)]_vars
    /\ [](pc = "save"
          => \/ LastVerdict = "Valid"
             \/ LastVerdict = "NoResponse"
             \/ LastVerdict = "SyntaxError" /\ Len(hist) = 3)
    /\ [][(~InLoop /\ i' = i)
          => (~InLoop' /\ sent' = sent /\ calls' = calls /\ hist' = hist)]_vars

\* C16 witness: the loop was left for the save step after a 3rd iteration
\* whose code failed validation.
C16_Witness ==
    /\ pc = "save"
    /\ attempt = 3
    /\ Len(hist) = 3
    /\ LastVerdict = "SyntaxError"

\* The outcome that the attempts of a record alone determine.
OutcomeOf(attempts) ==
    IF /\ attempts # <<>>
       /\ attempts[Len(attempts)].verdict = "Valid"
       /\ attempts[Len(attempts)].code.text # <<>>
    THEN "Success"
    ELSE "Failed"

\* C17: the repair loops of different records are independent. A record
\* starts with the attempt counter, the previous code and the previous
\* diagnostic reset; its Initial prompt carries its own class name and source,
\* its Corrective prompts the diagnostic and code of its own attempts; and its
\* outcome is determined by whether its source was found and by the responses
\* of its own loop, whatever came of the records before it.
C17_RecordsIndependent ==
    /\ (pc = "prompt" /\ attempt = 0)
       => /\ python_code = NoneVal
          /\ validation_error = NoError
          /\ calls = 0
          /\ js_code = i
    /\ \A n \in 1..Len(sent) :
         IF sent[n].kind = "Initial"
         THEN /\ n = 1
              /\ sent[n].js_code = parser_data.js_filename
              /\ sent[n].class_name = parser_data.class_name
              /\ sent[n].error.isNone
              /\ sent[n].code.isNone
         ELSE /\ n >= 2
              /\ sent[n].error = hist[n - 1].error
              /\ sent[n].code = hist[n - 1].code
    /\ RecordDone
       => outcome[i] = (IF js_code # i THEN "Skipped" ELSE OutcomeOf(hist))

\* C17 witness: the 1st record has failed and the 2nd record, after a
\* corrective prompt of its own, has succeeded.
C17_Witness ==
    /\ RecordDone
    /\ i = 2
    /\ outcome[1] = "Failed"
    /\ Len(sent) = 2
    /\ outcome[2] = "Success"

\* The upload has been tried and has raised.
UploadFailed == uploadResult \notin {"none", "link"}

\* C18: a failure of the upload, whatever the exception, is reported as a
\* message and does not abort the run: the upload step leaves the generated
\* files and the ZIP as they were, the failure message is the event before the
\* end marker, and the stream finishes with the end marker.
C18_UploadFailureIsReported ==
    /\ [](UploadFailed
          => /\ pc \in {"end", "finished"}
             /\ zip.made
             /\ zip.members = files
             /\ (pc = "end") => (/\ lastEvent = "ERROR: Could not upload the file"
                                 /\ endMarkers = 0)
             /\ (pc = "finished") => (/\ lastEvent = "---END---"
                                      /\ endMarkers = 1))
    /\ [][(pc \in {"upload", "end"}) => (files' = files /\ zip' = zip)]_vars

\* C18 witness: the upload timed out with a generated file in the ZIP, and
\* the run has finished.
C18_Witness ==
    /\ pc = "finished"
    /\ uploadResult = "timeout"
    /\ zip.members # {}

\* The stream has delivered its last event.
RunOver == pc \in {"finished", "aborted", "closed"}

\* C19: every run of the stream, on every path, emits the end marker exactly
\* once and as its last event, and the conversion is entered only after an
\* extraction that succeeded.
C19_EndMarkerOnEveryPath ==
    /\ endMarkers <= 1
    /\ RunOver => /\ endMarkers = 1
                  /\ lastEvent = "---END---"
    /\ (pc = "convert") => (extraction = "ok")

\* GENERATED_DIR has been emptied by this run (lines 101-104 are behind).
DirEmptied == i >= 1 \/ pc \in AfterRecord

\* Record r has written the file f.
WrittenBy(f, r) ==
    /\ f.js = r
    /\ wrote[r] = [written |-> TRUE, path |-> f.path, body |-> f.body]

\* C20: once the run has emptied the generated directory, the directory holds
\* only files written by records of this run; the body of each is non-empty
\* cleaned code that passed validation; a record that ended Failed or Skipped
\* has written no file; and when several successful records derive the same
\* path, the one file at that path holds the code of the latest of them.
C20_DirHoldsOnlyValidated ==
    DirEmptied =>
      /\ \A f \in files :
           /\ f.js \in 1..i
           /\ outcome[f.js] = "Success"
           /\ WrittenBy(f, f.js)
           /\ f.body # <<>>
           /\ CleanCode(f.body) = f.body
           /\ ParseVerdict(f.body) = "Valid"
           /\ \A r \in (f.js + 1)..i : ~(wrote[r].written /\ wrote[r].path = f.path)
      /\ \A f, g \in files : f.path = g.path => f = g
      /\ \A r \in 1..NumRecords :
           /\ wrote[r].written <=> outcome[r] = "Success"
           /\ wrote[r].written => \E f \in files : f.path = wrote[r].path
           /\ outcome[r] \in {"Failed", "Skipped"} => \A f \in files : f.js # r

\* C20 witness: the run started on a directory with a file of an earlier run;
\* two records of different class names derived the same path and both
\* succeeded with different code, and the one file holds the code of the 2nd.
C20_Witness ==
    /\ pc = "finished"
    /\ i = 2
    /\ wrote[1].written
    /\ wrote[2].written
    /\ wrote[1].path = wrote[2].path
    /\ wrote[1].body # wrote[2].body
    /\ files = {[path |-> wrote[2].path, js |-> 2, body |-> wrote[2].body]}
    /\ zip.members = files

--------------------------------------------------------------------------
(* Fence stripping on its own: the cleaning of line 170 applied to every    *)
(* text of up to MaxLen tokens, and again to what it returns.               *)

MaxLen == 6

\* The tokens that matter to the cleaning: backquote, the word python,
\* newline, code.
CleanAlphabet == {"q", "p", "n", "a"}

CleanInputs == UNION {[1..n -> CleanAlphabet] : n \in 0..MaxLen}

\* hist holds the text and what each application of the cleaning returned.
InitClean ==
    /\ pc = "clean"
    /\ hist \in {<<s>> : s \in CleanInputs}
    /\ GEMINI_API_KEY = ""
    /\ files = {}
    /\ i = 0
    /\ parser_data = [js_filename |-> 0, class_name |-> <<>>]
    /\ attempt = 0
    /\ python_code = NoneVal
    /\ validation_error = NoError
    /\ prompt = NoPrompt
    /\ tries = 0
    /\ httpLog = <<>>
    /\ slept = <<>>
    /\ calls = 0
    /\ sent = <<>>
    /\ outcome = [r \in 1..NumRecords |-> "none"]
    /\ js_code = 0
    /\ extraction = "pending"
    /\ jsonExists = FALSE
    /\ lastEvent = ""
    /\ endMarkers = 0
    /\ outcomeEvents = [r \in 1..NumRecords |-> 0]
    /\ wrote = [r \in 1..NumRecords |-> NoWrite]
    /\ zip = [made |-> FALSE, members |-> {}]
    /\ uploadResult = "none"

\* python_code = re.sub(...).strip() (line 170), on the text got last.
ApplyCleanCode ==
    /\ pc = "clean"
    /\ Len(hist) < 3
    /\ hist' = Append(hist, CleanCode(hist[Len(hist)]))
    /\ UNCHANGED <<GEMINI_API_KEY, pc, files, i, parser_data, attempt,
                   python_code, validation_error, prompt, tries, httpLog, slept,
                   calls, sent, outcome, js_code, extraction, jsonExists,
                   lastEvent, endMarkers, outcomeEvents, wrote, zip,
                   uploadResult>>

NextClean == ApplyCleanCode

SpecClean == InitClean /\ [][NextClean]_vars

\* Three backquotes in a row somewhere in s.
HasFence(s) == \E k \in 1..(Len(s) - 2) : s[k] = "q" /\ s[k + 1] = "q" /\ s[k + 2] = "q"

\* s begins or ends with whitespace.
HasOuterSpace(s) == s # <<>> /\ (s[1] = "n" \/ s[Len(s)] = "n")

\* C14: fence stripping is idempotent, strip(strip(s)) = strip(s) for every
\* text s, and it leaves a text with no fence and no surrounding whitespace
\* as it is.
C14_CleanCodeIdempotent ==
    pc = "clean"
    => /\ Len(hist) >= 3 => hist[3] = hist[2]
       /\ (Len(hist) >= 2 /\ ~HasFence(hist[1]) /\ ~HasOuterSpace(hist[1]))
          => hist[2] = hist[1]
       /\ Len(hist) >= 2 => ~HasFence(hist[2]) /\ ~HasOuterSpace(hist[2])

\* C14 witness: the cleaning was applied twice to a fenced text from which it
\* took the fences and left code.
C14_Witness ==
    /\ pc = "clean"
    /\ Len(hist) = 3
    /\ HasFence(hist[1])
    /\ hist[2] # hist[1]
    /\ hist[2] # <<>>

====
